---- MODULE Spec2Model ----
(***************************************************************************)
(* light_runner.py: AudioPlayer (backend probe, play, stop), the two       *)
(* signal handlers, and the heartbeat loop of main().                      *)
(*                                                                         *)
(* Python's None is the string "None".  threading.Event objects are        *)
(* booleans (set / clear / is_set are atomic).  Signal handlers run on the *)
(* main thread between two of its statements, so the main thread does not  *)
(* advance while a handler is between its two statements.                  *)
(***************************************************************************)
EXTENDS Integers, Sequences, FiniteSets, TLC

\* Bounds of the model.
MaxCount == 2
MaxExpiry == 3
MaxTerm == 2

\* Playback units the looping worker starts before the model stops counting.
MaxUnits == 2

\* shutil.which probes of __init__, in the order of the code.
CliPlayers == <<"mpg123", "mpv", "ffplay", "afplay">>
CliSet == {"mpg123", "mpv", "ffplay", "afplay"}
OpenerSet == {"xdg-open", "open", "start"}
Commands == {"mpg123", "mpv", "ffplay", "afplay", "xdg-open", "open"}

\* What the host offers: pygame importable with a mixer that initialises, the
\* commands shutil.which finds, platform.system(), hasattr(signal, "setitimer"),
\* playsound importable.
Hosts ==
  [pygame : BOOLEAN, which : SUBSET Commands, system : {"Windows", "Linux"},
   setitimer : BOOLEAN, playsound : BOOLEAN]

VARIABLES
  host,             \* the host's mechanisms (environment, read by the probes)
  fileExists,       \* Path(self.path).is_file()
  args,             \* [count, silent]: args.count, args.silent
  cfgLoop,          \* cfg.get("loop", False)
  player,           \* the AudioPlayer object's fields
  mixerInit,        \* pygame.mixer is initialised
  musicPlaying,     \* pygame.mixer.music is playing
  child,            \* the spawned child process: "none", "running", "exited"
  wpc,              \* the worker thread _ps: "None", "test", "call", "unit", "done"
  units,            \* playsound() calls the worker has made
  unitsAfterStop,   \* those made while stop_event was set
  plays,            \* one entry per play() call: its result and what it tried
  stops,            \* the last two stop() calls: result and calls issued
  pc,               \* the main thread's position
  stop_event,
  heartbeat_event,
  heartbeat_count,
  printed,          \* the heartbeat counts printed so far
  hbBy,             \* the handlers that set heartbeat_event since its last clear
  inHandler,        \* sigterm_handler activations between line 40 and line 41
  woken,            \* a handler ran while the main thread was in signal.pause()
  timerArmed,       \* ITIMER_REAL is armed
  expiries,         \* interval expiries so far (SIGALRM deliveries, wait timeouts)
  terms,            \* SIGINT / SIGTERM deliveries so far
  faulted,          \* an exception was raised inside the try block
  stopCalls,        \* player.stop() calls made by main()
  stopAtEntry,      \* stop_event as the first loop test read it ("unset" before)
  stopAtWake,       \* stop_event when the current iteration's wait returned
  wakeTicks,        \* ticks counted since the wait last returned
  ticksAfterStop,   \* ticks counted while stop_event was set
  waitedOut         \* blocked waits ended by an interval expiry with stop_event set

envVars == <<host, fileExists, args, cfgLoop>>
audioVars == <<player, mixerInit, musicPlaying, child, wpc, units, unitsAfterStop,
               plays, stops>>
sigVars == <<stop_event, heartbeat_event, hbBy, inHandler, woken, terms>>
loopVars == <<heartbeat_count, printed, timerArmed, expiries, faulted, stopCalls,
              stopAtEntry, stopAtWake, wakeTicks, ticksAfterStop, waitedOut>>
vars == <<envVars, audioVars, sigVars, loopVars, pc>>

----------------------------------------------------------------------------
\* AudioPlayer

\* for cmd in (...): if shutil.which(cmd): self.backend = cmd; break
RECURSIVE FirstWhich(_, _)
FirstWhich(cmds, h) ==
  IF cmds = <<>> THEN "None"
  ELSE IF Head(cmds) \in h.which THEN Head(cmds)
  ELSE FirstWhich(Tail(cmds), h)

\* Mutant: the two POSIX openers probed in the other order.
OpenerForOpenFirst(h) ==
  IF h.system = "Windows" THEN "start"
  ELSE IF "open" \in h.which THEN "open"
  ELSE IF "xdg-open" \in h.which THEN "xdg-open"
  ELSE "None"

\* The OS file-opener branch of __init__ (backend still None after the loop).
OpenerFor(h) ==
  IF h.system = "Windows" THEN "start"
  ELSE IF "xdg-open" \in h.which THEN "xdg-open"
  ELSE IF "open" \in h.which THEN "open"
  ELSE "None"

\* AudioPlayer.__init__: the object it builds (obj: the name is bound to an
\* object, not to None).
AudioPlayer_init(loop, h) ==
  LET cli == FirstWhich(CliPlayers, h)
      backend == IF h.pygame THEN "pygame"
                 ELSE IF cli # "None" THEN cli
                 ELSE OpenerFor(h)
  IN [obj |-> TRUE, loop |-> loop, backend |-> backend, proc |-> "None",
      _thread |-> "None", _use_pygame |-> h.pygame,
      pygame |-> IF h.pygame THEN "module" ELSE "None"]

\* Mutant: no "return True" after a successful Popen, so the call goes on to the
\* playsound fallback with the child process already running.
playNoReturnAfterPopen(self, exists, mixerOK, popenOK, importOK) ==
  IF ~exists
  THEN [self |-> self, ret |-> FALSE, attempts |-> <<>>, started |-> "None"]
  ELSE
    LET try1 == self._use_pygame /\ self.pygame # "None"
        a1 == IF try1 THEN <<"pygame">> ELSE <<>>
        try2 == self.backend \in CliSet \cup OpenerSet
        a2 == IF try2 THEN Append(a1, self.backend) ELSE a1
        spawned == IF try2 /\ popenOK THEN [self EXCEPT !.proc = "Popen"]
                   ELSE self
    IN IF try1 /\ mixerOK
       THEN [self |-> self, ret |-> TRUE, attempts |-> a1, started |-> "mixer"]
       ELSE IF importOK
       THEN [self |-> [spawned EXCEPT !._thread = "Thread",
                                      !.backend = "playsound-thread"],
             ret |-> TRUE, attempts |-> Append(a2, "playsound"),
             started |-> "thread"]
       ELSE [self |-> spawned, ret |-> try2 /\ popenOK,
             attempts |-> Append(a2, "playsound"),
             started |-> IF try2 /\ popenOK THEN "process" ELSE "None"]

\* AudioPlayer.play: the object after the call, the value returned, the backends
\* attempted in order, and the mechanism started.  mixerOK: music.load and
\* music.play do not raise; popenOK: subprocess.Popen does not raise; importOK:
\* "from playsound import playsound" does not raise.
play(self, exists, mixerOK, popenOK, importOK) ==
  IF ~exists
  THEN [self |-> self, ret |-> FALSE, attempts |-> <<>>, started |-> "None"]
  ELSE
    LET try1 == self._use_pygame /\ self.pygame # "None"
        a1 == IF try1 THEN <<"pygame">> ELSE <<>>
        try2 == self.backend \in CliSet
        a2 == IF try2 THEN Append(a1, self.backend) ELSE a1
        try3 == self.backend \in OpenerSet
        a3 == IF try3 THEN Append(a2, self.backend) ELSE a2
    IN IF try1 /\ mixerOK
       THEN [self |-> self, ret |-> TRUE, attempts |-> a1, started |-> "mixer"]
       ELSE IF try2 /\ popenOK
       THEN [self |-> [self EXCEPT !.proc = "Popen"], ret |-> TRUE,
             attempts |-> a2, started |-> "process"]
       ELSE IF try3 /\ popenOK
       THEN [self |-> [self EXCEPT !.proc = "Popen"], ret |-> TRUE,
             attempts |-> a3, started |-> "process"]
       ELSE IF importOK
       THEN [self |-> [self EXCEPT !._thread = "Thread",
                                   !.backend = "playsound-thread"],
             ret |-> TRUE, attempts |-> Append(a3, "playsound"),
             started |-> "thread"]
       ELSE [self |-> self, ret |-> FALSE, attempts |-> Append(a3, "playsound"),
             started |-> "None"]

\* The pygame branch of stop(): music.stop() raises when the mixer is not
\* initialised; mixer.quit() follows only when it did not raise.
StopMixer(self, mixerReady) ==
  IF self._use_pygame /\ self.pygame # "None"
  THEN IF mixerReady
       THEN [calls |-> <<"music.stop", "mixer.quit">>, stopped |-> TRUE]
       ELSE [calls |-> <<"music.stop">>, stopped |-> FALSE]
  ELSE [calls |-> <<>>, stopped |-> FALSE]

\* Mutant: "stopped = True" placed after the inner try instead of inside it.
StopProcKillUnchecked(self, termOK, waitOK, killOK) ==
  IF self.proc # "None"
  THEN IF termOK /\ waitOK
       THEN [calls |-> <<"terminate", "wait">>, stopped |-> TRUE,
             raised |-> {}]
       ELSE [calls |-> IF termOK THEN <<"terminate", "wait", "kill">>
                       ELSE <<"terminate", "kill">>,
             stopped |-> TRUE,
             raised |-> {IF termOK THEN "wait" ELSE "terminate"}
                          \cup (IF killOK THEN {} ELSE {"kill"})]
  ELSE [calls |-> <<>>, stopped |-> FALSE, raised |-> {}]

\* The child-process branch of stop(): terminate, wait(timeout=1), and kill in
\* the except clause.  termOK, waitOK, killOK: the call does not raise.
StopProc(self, termOK, waitOK, killOK) ==
  IF self.proc # "None"
  THEN IF termOK /\ waitOK
       THEN [calls |-> <<"terminate", "wait">>, stopped |-> TRUE,
             raised |-> {}]
       ELSE [calls |-> IF termOK THEN <<"terminate", "wait", "kill">>
                       ELSE <<"terminate", "kill">>,
             stopped |-> killOK,
             raised |-> {IF termOK THEN "wait" ELSE "terminate"}
                          \cup (IF killOK THEN {} ELSE {"kill"})]
  ELSE [calls |-> <<>>, stopped |-> FALSE, raised |-> {}]

\* The thread branch of stop(): line 272.
StopThread(self, stopped, alive) ==
  ~stopped /\ self._thread # "None" /\ alive

\* AudioPlayer.stop: the value returned and the calls issued, in order.
stop(self, mixerReady, alive, termOK, waitOK, killOK) ==
  LET m == StopMixer(self, mixerReady)
      p == StopProc(self, termOK, waitOK, killOK)
      s == m.stopped \/ p.stopped
  IN [ret |-> s \/ StopThread(self, s, alive),
      calls |-> m.calls \o p.calls,
      raised |-> p.raised,
      held |-> self.proc # "None"]

\* Thread.is_alive() of the worker.
IsAlive == wpc \in {"test", "call", "unit"}

\* The effects of a play() call on the mixer, the child process and the worker.
PlayEffects(r) ==
  /\ player' = r.self
  /\ plays' = Append(plays, [ret |-> r.ret, attempts |-> r.attempts,
                             started |-> r.started])
  /\ musicPlaying' = IF r.started = "mixer" THEN TRUE ELSE musicPlaying
  /\ child' = IF r.started = "process" THEN "running" ELSE child
  /\ wpc' = IF r.started = "thread"
            THEN (IF r.self.loop THEN "test" ELSE "call")
            ELSE wpc
  /\ UNCHANGED <<mixerInit, units, unitsAfterStop, stops>>

\* One call of player.play() with the outcomes the host can produce.
DoPlay ==
  \E mixerOK, popenOK \in BOOLEAN :
    /\ mixerOK => mixerInit
    /\ PlayEffects(play(player, fileExists, mixerOK, popenOK, host.playsound))

\* The effects of a stop() call.
StopEffects(r0) ==
  LET r == [ret |-> r0.ret, calls |-> r0.calls, raised |-> r0.raised,
            held |-> r0.held, nplays |-> Len(plays),
            begun |-> (\E i \in DOMAIN plays : plays[i].ret)]
  IN
  /\ stops' = IF Len(stops) < 2 THEN Append(stops, r)
              ELSE <<stops[2], r>>
  /\ mixerInit' = IF "mixer.quit" \in {r.calls[i] : i \in DOMAIN r.calls}
                  THEN FALSE ELSE mixerInit
  /\ musicPlaying' = IF "music.stop" \in {r.calls[i] : i \in DOMAIN r.calls}
                        /\ mixerInit
                     THEN FALSE ELSE musicPlaying
  /\ child' = IF r.held /\ r.ret /\ child = "running" THEN "exited" ELSE child
  /\ UNCHANGED <<player, wpc, units, unitsAfterStop, plays>>

\* One call of player.stop() with the outcomes the host can produce.
DoStop ==
  \E termOK, waitOK, killOK \in BOOLEAN :
    StopEffects(stop(player, mixerInit, IsAlive, termOK, waitOK, killOK))

\* player = None (line 466).
NoPlayer ==
  [obj |-> FALSE, loop |-> FALSE, backend |-> "None", proc |-> "None",
   _thread |-> "None", _use_pygame |-> FALSE, pygame |-> "None"]

\* AudioPlayer(mp3_path, loop=loop_flag): pygame.mixer.init() runs in __init__.
DoConstruct ==
  /\ player' = AudioPlayer_init(cfgLoop, host)
  /\ mixerInit' = host.pygame
  /\ UNCHANGED <<musicPlaying, child, wpc, units, unitsAfterStop, plays, stops>>

\* Mutant: the worker's loop written as "while True".
WorkerLoopsAlways(s) == TRUE

\* while not stop_event.is_set()   (line 229)
WorkerLoops(s) == ~s

\* The worker thread _ps (lines 225-234).  With loop set it reads stop_event
\* (line 229) and then calls playsound (line 230); without, it calls playsound
\* once (line 232).  A blocking playsound call returns or raises.
WorkerStep ==
  /\ \/ /\ wpc = "test"
        /\ WorkerLoops(stop_event) => units < MaxUnits
        /\ wpc' = IF WorkerLoops(stop_event) THEN "call" ELSE "done"
        /\ UNCHANGED <<units, unitsAfterStop>>
     \/ /\ wpc = "call"
        /\ wpc' = "unit"
        /\ units' = units + 1
        /\ unitsAfterStop' = IF stop_event THEN unitsAfterStop + 1
                             ELSE unitsAfterStop
     \/ /\ wpc = "unit"
        /\ \E raises \in BOOLEAN :
             wpc' = IF player.loop /\ ~raises THEN "test" ELSE "done"
        /\ UNCHANGED <<units, unitsAfterStop>>
  /\ UNCHANGED <<player, mixerInit, musicPlaying, child, plays, stops>>
  /\ UNCHANGED <<envVars, sigVars, loopVars, pc>>

\* The child process ends by itself (the file has been played).
ChildExit ==
  /\ child = "running"
  /\ child' = "exited"
  /\ UNCHANGED <<player, mixerInit, musicPlaying, wpc, units, unitsAfterStop,
                 plays, stops>>
  /\ UNCHANGED <<envVars, sigVars, loopVars, pc>>

----------------------------------------------------------------------------
\* A caller of the AudioPlayer API (as test_play: construct, play once, stop).

ApiConstruct ==
  /\ pc = "api_new"
  /\ DoConstruct
  /\ pc' = "api"
  /\ UNCHANGED <<envVars, sigVars, loopVars>>

ApiPlay ==
  /\ pc = "api"
  /\ plays = <<>>
  /\ DoPlay
  /\ UNCHANGED <<envVars, sigVars, loopVars, pc>>

ApiStop ==
  /\ pc = "api"
  /\ DoStop
  /\ UNCHANGED <<envVars, sigVars, loopVars, pc>>

InitCommon ==
  /\ player = NoPlayer
  /\ mixerInit = FALSE
  /\ musicPlaying = FALSE
  /\ child = "none"
  /\ wpc = "None"
  /\ units = 0
  /\ unitsAfterStop = 0
  /\ plays = <<>>
  /\ stops = <<>>
  /\ stop_event = FALSE
  /\ heartbeat_event = FALSE
  /\ hbBy = {}
  /\ heartbeat_count = 0
  /\ printed = <<>>
  /\ inHandler = 0
  /\ woken = FALSE
  /\ timerArmed = FALSE
  /\ expiries = 0
  /\ terms = 0
  /\ faulted = FALSE
  /\ stopCalls = 0
  /\ stopAtEntry = "unset"
  /\ stopAtWake = FALSE
  /\ wakeTicks = 0
  /\ ticksAfterStop = 0
  /\ waitedOut = 0

InitPlayer ==
  /\ host \in {h \in Hosts : h.setitimer = (h.system # "Windows")}
  /\ fileExists \in BOOLEAN
  /\ cfgLoop \in BOOLEAN
  /\ args = [count |-> 0, silent |-> TRUE]
  /\ pc = "api_new"
  /\ InitCommon

NextPlayer ==
  \/ ApiConstruct
  \/ ApiPlay
  \/ ApiStop
  \/ WorkerStep
  \/ ChildExit

SpecPlayer == InitPlayer /\ [][NextPlayer]_vars

----------------------------------------------------------------------------
\* Signal handlers.  They are installed (lines 425-427) before anything below.

\* Mutant: the two statements of sigterm_handler in the other order.
HandlerOrderSwapped == <<"heartbeat_event", "stop_event">>

\* The events sigterm_handler sets, in program order (lines 40, 41).
HandlerOrder == <<"stop_event", "heartbeat_event">>

\* Event.set() on event e, called by sigterm_handler.
SetEvent(e) ==
  /\ stop_event' = (stop_event \/ e = "stop_event")
  /\ heartbeat_event' = (heartbeat_event \/ e = "heartbeat_event")
  /\ hbBy' = IF e = "heartbeat_event" THEN hbBy \cup {"term"} ELSE hbBy

\* SIGINT or SIGTERM arrives: sigterm_handler starts and runs line 40.  A
\* handler that runs while the main thread is in signal.pause() ends the pause.
DeliverTerm ==
  /\ pc \notin {"done", "api_new", "api"}
  /\ terms < MaxTerm
  /\ terms' = terms + 1
  /\ SetEvent(HandlerOrder[1])
  /\ inHandler' = inHandler + 1
  /\ woken' = (woken \/ pc = "blocked")
  /\ UNCHANGED <<envVars, audioVars, loopVars, pc>>

\* sigterm_handler, line 41.
SigtermLine41 ==
  /\ inHandler > 0
  /\ SetEvent(HandlerOrder[2])
  /\ inHandler' = inHandler - 1
  /\ UNCHANGED <<woken, terms>>
  /\ UNCHANGED <<envVars, audioVars, loopVars, pc>>

\* The interval timer expires: SIGALRM arrives and alarm_handler runs.
DeliverAlarm ==
  /\ pc # "done"
  /\ timerArmed
  /\ expiries < MaxExpiry
  /\ expiries' = expiries + 1
  /\ heartbeat_event' = TRUE
  /\ hbBy' = hbBy \cup {"alarm"}
  /\ woken' = (woken \/ pc = "blocked")
  /\ waitedOut' = IF pc = "blocked" /\ ~woken /\ stop_event
                  THEN waitedOut + 1 ELSE waitedOut
  /\ UNCHANGED <<stop_event, inHandler, terms>>
  /\ UNCHANGED <<heartbeat_count, printed, timerArmed, faulted, stopCalls,
                 stopAtEntry, stopAtWake, wakeTicks, ticksAfterStop>>
  /\ UNCHANGED <<envVars, audioVars, pc>>

----------------------------------------------------------------------------
\* main(), from line 466.  mp3_path is set there: main() has returned at line
\* 459 otherwise.

\* Line 476.
is_posix == host.system # "Windows" /\ host.setitimer

\* The main thread runs a statement only when no handler is running on it.
MainAt(p) == pc = p /\ inHandler = 0

\* Mutant: the limit test written with > for >=.
LimitReachedLate(c, n) == n > 0 /\ c > n

\* Mutant: the limit test without "args.count > 0 and".
LimitReachedNoGuard(c, n) == c >= n

\* args.count > 0 and heartbeat_count >= args.count (lines 504, 517).
LimitReached(c, n) == n > 0 /\ c >= n

\* Where a break, or a loop test that fails, leads: line 506, or the finally.
LoopExit == IF is_posix THEN "disarm" ELSE "finally"

\* Line 468.
MainConstruct ==
  /\ MainAt("construct")
  /\ DoConstruct
  /\ pc' = "play"
  /\ UNCHANGED <<envVars, sigVars, loopVars>>

\* Mutant: a play() that returns False ends the run (the loop is skipped).
MainPlayAbortsOnFailure ==
  /\ MainAt("play")
  /\ DoPlay
  /\ pc' = IF plays'[Len(plays')].ret THEN "arm" ELSE "finally"
  /\ UNCHANGED <<envVars, sigVars, loopVars>>

\* Lines 469-489.
MainPlay ==
  /\ MainAt("play")
  /\ DoPlay
  /\ pc' = "arm"
  /\ UNCHANGED <<envVars, sigVars, loopVars>>

\* Lines 491-493: in timer mode, install alarm_handler and arm the timer.
Arm ==
  /\ MainAt("arm")
  /\ timerArmed' = is_posix
  /\ pc' = "while"
  /\ UNCHANGED <<heartbeat_count, printed, expiries, faulted, stopCalls,
                 stopAtEntry, stopAtWake, wakeTicks, ticksAfterStop, waitedOut>>
  /\ UNCHANGED <<envVars, audioVars, sigVars>>

\* while not stop_event.is_set()   (lines 494, 508)
LoopTest ==
  /\ MainAt("while")
  /\ stopAtEntry' = IF stopAtEntry = "unset"
                    THEN (IF stop_event THEN "set" ELSE "clear")
                    ELSE stopAtEntry
  /\ pc' = IF stop_event THEN LoopExit ELSE "call_wait"
  /\ UNCHANGED <<heartbeat_count, printed, timerArmed, expiries, faulted,
                 stopCalls, stopAtWake, wakeTicks, ticksAfterStop, waitedOut>>
  /\ UNCHANGED <<envVars, audioVars, sigVars>>

\* signal.pause() is entered (line 495): the thread sleeps until a handler runs.
EnterPause ==
  /\ MainAt("call_wait")
  /\ is_posix
  /\ pc' = "blocked"
  /\ woken' = FALSE
  /\ UNCHANGED <<stop_event, heartbeat_event, hbBy, inHandler, terms>>
  /\ UNCHANGED <<envVars, audioVars, loopVars>>

\* signal.pause() returns, after the handlers that ended it.
PauseReturn ==
  /\ MainAt("blocked")
  /\ woken
  /\ woken' = FALSE
  /\ stopAtWake' = stop_event
  /\ wakeTicks' = 0
  /\ pc' = "chk_stop"
  /\ UNCHANGED <<stop_event, heartbeat_event, hbBy, inHandler, terms>>
  /\ UNCHANGED <<heartbeat_count, printed, timerArmed, expiries, faulted,
                 stopCalls, stopAtEntry, ticksAfterStop, waitedOut>>
  /\ UNCHANGED <<envVars, audioVars>>

\* heartbeat_event.wait(args.interval) returns because the event is set (line 509).
WaitReturn ==
  /\ MainAt("call_wait")
  /\ ~is_posix
  /\ heartbeat_event
  /\ stopAtWake' = stop_event
  /\ wakeTicks' = 0
  /\ pc' = "clear"
  /\ UNCHANGED <<heartbeat_count, printed, timerArmed, expiries, faulted,
                 stopCalls, stopAtEntry, ticksAfterStop, waitedOut>>
  /\ UNCHANGED <<envVars, audioVars, sigVars>>

\* heartbeat_event.wait(args.interval) returns because the interval has elapsed.
WaitTimeout ==
  /\ MainAt("call_wait")
  /\ ~is_posix
  /\ ~heartbeat_event
  /\ expiries < MaxExpiry
  /\ expiries' = expiries + 1
  /\ waitedOut' = IF stop_event THEN waitedOut + 1 ELSE waitedOut
  /\ stopAtWake' = stop_event
  /\ wakeTicks' = 0
  /\ pc' = "clear"
  /\ UNCHANGED <<heartbeat_count, printed, timerArmed, faulted, stopCalls,
                 stopAtEntry, ticksAfterStop>>
  /\ UNCHANGED <<envVars, audioVars, sigVars>>

\* Mutant: the loop without the test after the wait.
BreakOnStopNever(s) == FALSE

\* The test of lines 496 and 511.
BreakOnStop(s) == s

\* if stop_event.is_set(): break   (lines 496, 511)
CheckStop ==
  /\ MainAt("chk_stop")
  /\ pc' = IF BreakOnStop(stop_event) THEN LoopExit
           ELSE IF is_posix THEN "chk_hb" ELSE "tick"
  /\ UNCHANGED <<envVars, audioVars, sigVars, loopVars>>

\* if heartbeat_event.is_set():   (line 498)
CheckHeartbeat ==
  /\ MainAt("chk_hb")
  /\ pc' = IF heartbeat_event THEN "clear" ELSE "while"
  /\ UNCHANGED <<envVars, audioVars, sigVars, loopVars>>

\* Mutant: clear() called on the wrong event.
ClearHeartbeatWrongEvent ==
  /\ MainAt("clear")
  /\ stop_event' = FALSE
  /\ pc' = IF is_posix THEN "tick" ELSE "chk_stop"
  /\ UNCHANGED <<heartbeat_event, hbBy, inHandler, woken, terms>>
  /\ UNCHANGED <<envVars, audioVars, loopVars>>

\* heartbeat_event.clear()   (lines 499, 510)
ClearHeartbeat ==
  /\ MainAt("clear")
  /\ heartbeat_event' = FALSE
  /\ hbBy' = {}
  /\ pc' = IF is_posix THEN "tick" ELSE "chk_stop"
  /\ UNCHANGED <<stop_event, inHandler, woken, terms>>
  /\ UNCHANGED <<envVars, audioVars, loopVars>>

\* Lines 500-505 and 513-518: count the tick, print it unless silent, and
\* break at the limit.  The statements after the increment may raise.
Tick ==
  /\ MainAt("tick")
  /\ heartbeat_count' = heartbeat_count + 1
  /\ wakeTicks' = wakeTicks + 1
  /\ ticksAfterStop' = IF stop_event THEN ticksAfterStop + 1 ELSE ticksAfterStop
  /\ \E raises \in BOOLEAN :
       /\ raises => ~args.silent
       /\ printed' = IF args.silent \/ raises THEN printed
                     ELSE Append(printed, heartbeat_count')
       /\ faulted' = (faulted \/ raises)
       /\ pc' = IF raises THEN "except"
                ELSE IF LimitReached(heartbeat_count', args.count) THEN LoopExit
                ELSE "while"
  /\ UNCHANGED <<timerArmed, expiries, stopCalls, stopAtEntry, stopAtWake,
                 waitedOut>>
  /\ UNCHANGED <<envVars, audioVars, sigVars>>

\* signal.setitimer(signal.ITIMER_REAL, 0)   (line 506)
Disarm ==
  /\ MainAt("disarm")
  /\ timerArmed' = FALSE
  /\ pc' = "finally"
  /\ UNCHANGED <<heartbeat_count, printed, expiries, faulted, stopCalls,
                 stopAtEntry, stopAtWake, wakeTicks, ticksAfterStop, waitedOut>>
  /\ UNCHANGED <<envVars, audioVars, sigVars>>

\* The positions inside the try block (lines 491-518).
TryPcs ==
  {"arm", "while", "call_wait", "blocked", "chk_stop", "chk_hb", "clear",
   "tick", "disarm"}

\* Mutant: the try block placed inside the loop, so the loop goes on.
FaultKeepsGoing ==
  /\ pc \in TryPcs
  /\ inHandler = 0
  /\ faulted' = TRUE
  /\ pc' = "while"
  /\ UNCHANGED <<heartbeat_count, printed, timerArmed, expiries, stopCalls,
                 stopAtEntry, stopAtWake, wakeTicks, ticksAfterStop, waitedOut>>
  /\ UNCHANGED <<envVars, audioVars, sigVars>>

\* An unexpected exception is raised by the statement the main thread is at.
Fault ==
  /\ pc \in TryPcs
  /\ inHandler = 0
  /\ faulted' = TRUE
  /\ pc' = "except"
  /\ UNCHANGED <<heartbeat_count, printed, timerArmed, expiries, stopCalls,
                 stopAtEntry, stopAtWake, wakeTicks, ticksAfterStop, waitedOut>>
  /\ UNCHANGED <<envVars, audioVars, sigVars>>

\* except Exception as e: print(...)   (lines 519-520)
Except ==
  /\ MainAt("except")
  /\ pc' = "finally"
  /\ UNCHANGED <<envVars, audioVars, sigVars, loopVars>>

\* Mutant: stop() called only for a player that holds a child process.
FinallyStopsProcOnly(p) == p.obj /\ p.proc # "None"

\* Whether the finally clause calls player.stop() (lines 523-524).
FinallyStops(p) == p.obj

\* finally: ... if player: player.stop() ...   (lines 521-525)
Finally ==
  /\ MainAt("finally")
  /\ IF FinallyStops(player)
     THEN DoStop /\ stopCalls' = stopCalls + 1
     ELSE UNCHANGED <<audioVars, stopCalls>>
  /\ pc' = "done"
  /\ UNCHANGED <<heartbeat_count, printed, timerArmed, expiries, faulted,
                 stopAtEntry, stopAtWake, wakeTicks, ticksAfterStop, waitedOut>>
  /\ UNCHANGED <<envVars, sigVars>>

\* The hosts of the runs of main(): at most one playback mechanism each.
MainHosts ==
  {h \in Hosts :
     /\ h.setitimer = (h.system # "Windows")
     /\ h.which \subseteq {"mpg123", "xdg-open"}
     /\ Cardinality(h.which) + (IF h.pygame THEN 1 ELSE 0)
          + (IF h.playsound THEN 1 ELSE 0) <= 1}

Init ==
  /\ host \in MainHosts
  /\ fileExists \in BOOLEAN
  /\ cfgLoop \in BOOLEAN
  /\ args \in [count : 0..MaxCount, silent : BOOLEAN]
  /\ pc = "construct"
  /\ InitCommon

Next ==
  \/ MainConstruct
  \/ MainPlay
  \/ Arm
  \/ LoopTest
  \/ EnterPause
  \/ PauseReturn
  \/ WaitReturn
  \/ WaitTimeout
  \/ CheckStop
  \/ CheckHeartbeat
  \/ ClearHeartbeat
  \/ Tick
  \/ Disarm
  \/ Fault
  \/ Except
  \/ Finally
  \/ DeliverTerm
  \/ SigtermLine41
  \/ DeliverAlarm
  \/ WorkerStep
  \/ ChildExit

Spec == Init /\ [][Next]_vars

\* The runs of main() on the hosts that play through the worker thread or
\* through a child process, with the worker thread scheduled fairly: a
\* playsound call that returns, and a thread that is never starved.
InitLive ==
  /\ Init
  /\ host.playsound \/ host.which = {"mpg123"}
  /\ fileExists
  /\ args.silent

SpecLive == InitLive /\ [][Next]_vars /\ WF_vars(WorkerStep)

----------------------------------------------------------------------------
\* Properties of the heartbeat loop (checked under Spec).

\* The positions after the loop has been left without an exception.
AfterLoop == {"disarm", "finally", "done"}

\* C1: with a tick limit N > 0, in both waiting strategies, heartbeat_count never
\* exceeds N, the counts printed are 1, 2, ... in order, and when the loop is
\* left with no shutdown request and no exception exactly N ticks were counted.
C1_ExactlyNTicks ==
  args.count > 0 =>
    /\ heartbeat_count <= args.count
    /\ printed = [i \in 1..Len(printed) |-> i]
    /\ (~args.silent /\ ~faulted => Len(printed) = heartbeat_count)
    /\ (pc \in AfterLoop /\ terms = 0 /\ ~faulted
          => heartbeat_count = args.count)

C1_Witness ==
  /\ pc = "done"
  /\ terms = 0
  /\ ~faulted
  /\ args.count = 2
  /\ heartbeat_count = 2
  /\ printed = <<1, 2>>

\* C2: with tick limit 0 the loop is left (without an exception) only after
\* stop_event has been set, and once stop_event is set the blocked wait is ended
\* by an interval expiry at most once: the loop is out before a second one.
C2_UnboundedUntilCancelled ==
  args.count = 0 =>
    /\ (pc \in AfterLoop /\ ~faulted => stop_event)
    /\ waitedOut < 2

C2_Witness ==
  /\ args.count = 0
  /\ pc = "done"
  /\ ~faulted
  /\ heartbeat_count >= 2
  /\ waitedOut = 1

\* C3 as stated: no tick is counted (and none printed) in a step taken after
\* stop_event has been set, and a shutdown request that precedes the loop gives
\* zero ticks.
C3_NoTickAfterStopSet ==
  /\ ticksAfterStop = 0
  /\ (stopAtEntry = "set" => heartbeat_count = 0)

\* C3 as amended: an iteration whose wait returned with stop_event already set
\* never reaches the counting statement; at most one tick is counted after
\* stop_event is set (the handler ran after the test of line 496 / 511 had
\* passed); a shutdown request that precedes the first loop test gives zero ticks.
C3_NoTickOnceObserved ==
  /\ (pc = "tick" => ~stopAtWake)
  /\ ticksAfterStop <= 1
  /\ Len(printed) <= heartbeat_count
  /\ (stopAtEntry = "set" => heartbeat_count = 0)

C3_Witness ==
  /\ pc = "done"
  /\ stopAtWake
  /\ ~faulted
  /\ heartbeat_count = 1
  /\ ticksAfterStop = 0

\* C4: once the shutdown handler has run, the loop is never left sleeping in
\* its wait with the cancellation pending, and no wait is ended by an interval
\* expiry after stop_event was set.
C4_HandlerForceWakes ==
  /\ ~(pc = "blocked" /\ stop_event /\ ~woken)
  /\ waitedOut = 0

----------------------------------------------------------------------------
\* Properties of AudioPlayer (checked under SpecPlayer).

\* The set of the elements of a sequence.
Range(q) == {q[i] : i \in DOMAIN q}

\* C6: a stop() that follows another stop() with no play() between them, or a
\* stop() of a player whose play() has not succeeded, issues no call (no mixer
\* stop or release, no terminate, no kill), and two stop() calls in a row
\* return the same boolean.
C6_StopIdempotent ==
  /\ \A i \in DOMAIN stops : ~stops[i].begun => stops[i].calls = <<>>
  /\ (Len(stops) = 2 /\ stops[1].nplays = stops[2].nplays
        => stops[2].calls = <<>> /\ stops[2].ret = stops[1].ret)

\* C7: when the path is not an existing file, play() returns False and starts
\* nothing, and at no time from construction on is there a process handle, a
\* thread handle or an initialised mixer.
C7_NoHandleWithoutFile ==
  ~fileExists =>
    /\ \A i \in DOMAIN plays : ~plays[i].ret /\ plays[i].started = "None"
    /\ player.proc = "None"
    /\ player._thread = "None"
    /\ ~mixerInit

\* The priority of a mechanism: mixer, the CLI players, the OS opener, the
\* background-thread library.
Rank(b) ==
  CASE b = "pygame" -> 1
    [] b = "mpg123" -> 2
    [] b = "mpv" -> 3
    [] b = "ffplay" -> 4
    [] b = "afplay" -> 5
    [] b = "start" -> 6
    [] b = "xdg-open" -> 7
    [] b = "open" -> 8
    [] b \in {"playsound", "playsound-thread"} -> 9

\* The mechanisms __init__ probes that are usable on host h.
Probed(h) ==
  (IF h.pygame THEN {"pygame"} ELSE {})
    \cup (h.which \cap CliSet)
    \cup (IF h.system = "Windows" THEN {"start"}
          ELSE h.which \cap {"xdg-open", "open"})

\* The first of a non-empty set of mechanisms in priority order.
First(S) == CHOOSE b \in S : \A c \in S : Rank(b) <= Rank(c)

\* A player as __init__ has just left it.
JustBuilt == pc = "api" /\ plays = <<>>

Usable(h) ==
  Probed(h) \cup (IF h.playsound THEN {"playsound"} ELSE {})

\* C9: in a play() call, every usable mechanism that ranks after a failed
\* attempt, and before the mechanism finally used, has been attempted.
C9_NextCandidateInOrder ==
  \A k \in DOMAIN plays :
    LET a == plays[k].attempts
        failed == {a[j] : j \in {i \in DOMAIN a : i < Len(a) \/ ~plays[k].ret}}
    IN \A c \in Usable(host) :
         /\ \E f \in failed : Rank(f) < Rank(c)
         /\ plays[k].ret => Rank(c) < Rank(a[Len(a)])
         => c \in Range(a)

\* C10: a stop() of a player that holds a child process issues terminate
\* first; it issues kill only after terminate or the wait raised, and last;
\* and it returns True exactly when terminate and wait both succeeded or the
\* kill succeeded.
C10_BoundedEscalation ==
  \A i \in DOMAIN stops :
    LET e == stops[i]
        killed == "kill" \in Range(e.calls)
    IN e.held =>
         /\ e.calls # <<>>
         /\ e.calls[1] = "terminate"
         /\ killed => /\ e.calls[Len(e.calls)] = "kill"
                      /\ e.raised \cap {"terminate", "wait"} # {}
         /\ e.ret = \/ /\ "wait" \in Range(e.calls)
                       /\ e.raised \cap {"terminate", "wait"} = {}
                    \/ killed /\ "kill" \notin e.raised

C10_Witness ==
  \E i \in DOMAIN stops :
    /\ stops[i].held
    /\ stops[i].calls = <<"terminate", "wait", "kill">>
    /\ stops[i].raised = {"wait"}
    /\ stops[i].ret

----------------------------------------------------------------------------
\* Properties of the background-thread fallback.

\* C11: when main() has returned from a run whose session used the
\* background-thread fallback, stop() has set stop_event and has returned True,
\* whether or not the worker was still alive and however the loop ended.
C11_ThreadStopSignals ==
  pc = "done" /\ player._thread # "None" =>
    /\ stop_event
    /\ stops[Len(stops)].ret

----------------------------------------------------------------------------
\* Properties of play() (checked under SpecPlayer).

\* The kind of mechanism a backend attempt starts.
Kind(a) ==
  IF a = "pygame" THEN "mixer"
  ELSE IF a = "playsound" THEN "thread"
  ELSE "process"

\* C12: for an existing file, a play() that returns True stopped at the attempt
\* that succeeded and has started exactly one mechanism (mixer playback, or one
\* child process, or one worker thread); a play() that returns False has made
\* at least one attempt, every attempt down to the last fallback failed, and
\* nothing was started.
C12_OneMechanismOrAllFailed ==
  fileExists =>
    \A k \in DOMAIN plays :
      LET e == plays[k]
          handles == (IF player.proc # "None" THEN 1 ELSE 0)
                       + (IF player._thread # "None" THEN 1 ELSE 0)
      IN /\ e.attempts # <<>>
         /\ e.ret =>
              /\ e.started = Kind(e.attempts[Len(e.attempts)])
              /\ handles = IF e.started = "mixer" THEN 0 ELSE 1
              /\ e.started = "process" <=> player.proc # "None"
              /\ e.started = "thread" <=> player._thread # "None"
              /\ e.started # "mixer" => ~musicPlaying
         /\ ~e.ret =>
              /\ e.started = "None"
              /\ e.attempts[Len(e.attempts)] = "playsound"
              /\ ~host.playsound
              /\ handles = 0
              /\ ~musicPlaying

C12_Witness ==
  /\ fileExists
  /\ Len(plays) = 1
  /\ plays[1].ret
  /\ plays[1].attempts = <<"pygame", "playsound">>
  /\ plays[1].started = "thread"
  /\ wpc # "None"

----------------------------------------------------------------------------
\* Properties of the two events (checked under Spec).

\* C13: stop_event is never cleared once set, and the only steps that change it
\* are steps of sigterm_handler (the delivery of an interrupt or terminate
\* request, or the handler's second statement); every other step, of the loop,
\* of alarm_handler, of play() and stop(), of the worker, leaves it as it is.
C13_StopEventMonotoneSingleWriter ==
  [][/\ stop_event => stop_event'
     /\ stop_event' # stop_event
          => terms' = terms + 1 \/ inHandler' = inHandler - 1]_vars

C13_Witness ==
  /\ stop_event
  /\ terms = 2
  /\ pc = "done"
  /\ stopCalls = 1
  /\ heartbeat_count > 0
  /\ wpc = "done"

----------------------------------------------------------------------------
\* Audio failure and faults in the loop (checked under Spec).

----------------------------------------------------------------------------
\* The two waiting strategies compared (checked under Spec).

\* The loop is asleep in its wait: in signal.pause() with no handler run since
\* it was entered, or in heartbeat_event.wait() with the event unset.
Asleep ==
  /\ inHandler = 0
  /\ IF is_posix THEN pc = "blocked" /\ ~woken
     ELSE pc = "call_wait" /\ ~heartbeat_event

\* C16: the timer-driven and the wait-driven loop count and leave alike.  What
\* holds of the wait-driven loop holds in either mode: whenever the loop is
\* asleep in its wait and no shutdown request has been made, every interval
\* expiry so far has been counted as a tick; and the loop is never asleep with
\* stop_event set, so it leaves after the shutdown request itself and not
\* after a later expiry.
C16_SameTicksSameExit ==
  Asleep =>
    /\ terms = 0 => heartbeat_count = expiries
    /\ ~stop_event

----------------------------------------------------------------------------
\* Ticks and wakes (checked under Spec).

\* C17: heartbeat_count never exceeds the number of interval expiries so far
\* (SIGALRM deliveries, wait timeouts); between two returns of the wait at most
\* one tick is counted, whatever ended the wait and however many expiries
\* preceded it; and heartbeat_count grows by one at a time and never decreases.
C17_AtMostOneTickPerWake ==
  /\ [](heartbeat_count <= expiries /\ wakeTicks <= 1)
  /\ [][heartbeat_count' \in {heartbeat_count, heartbeat_count + 1}]_vars

C17_Witness ==
  /\ is_posix
  /\ pc = "while"
  /\ ~heartbeat_event
  /\ terms = 0
  /\ expiries = 3
  /\ heartbeat_count = 1
  /\ wakeTicks = 1

----------------------------------------------------------------------------
\* The backend attribute (checked under SpecPlayer).

\* C18: from the end of construction on, no step changes the player's backend:
\* no play() call, whichever attempt succeeds or fails, and no stop() call.
C18_BackendImmutable ==
  [][pc = "api" => player'.backend = player.backend]_vars

----------------------------------------------------------------------------
\* The worker thread (checked under SpecLive).

\* C19: without loop the worker calls playsound exactly once; with loop it
\* calls playsound only after reading stop_event as unset, so at most one call
\* is made while stop_event is set (the one whose test came before the set);
\* once stop_event is set the worker is never blocked, its next test ends it,
\* and, every playsound call returning, the worker eventually is done.
C19_WorkerHonoursLoopAndStop ==
  /\ [](stop_event /\ IsAlive => <>(wpc = "done"))
  /\ [](player._thread # "None" =>
          /\ ~player.loop =>
               /\ wpc # "test"
               /\ units = IF wpc = "call" THEN 0 ELSE 1
          /\ unitsAfterStop <= 1
          /\ stop_event /\ IsAlive => ENABLED WorkerStep)
  /\ [][/\ units' # units => wpc = "call" /\ units' = units + 1
        /\ stop_event /\ wpc = "test" /\ wpc' # wpc => wpc' = "done"
       ]_vars

C19_Witness ==
  /\ player.loop
  /\ player._thread # "None"
  /\ stop_event
  /\ units = 2
  /\ unitsAfterStop = 1
  /\ wpc = "done"

----------------------------------------------------------------------------
\* The order of the shutdown handler's writes (checked under Spec).

\* C20: sigterm_handler sets stop_event before heartbeat_event: whenever the
\* handler is between its two statements, or heartbeat_event carries a set by
\* sigterm_handler, stop_event is set; and when the timer loop, past its
\* stop_event test, reads heartbeat_event as set, alarm_handler is among the
\* handlers that set it.
C20_StopBeforeHeartbeat ==
  /\ inHandler > 0 \/ "term" \in hbBy => stop_event
  /\ heartbeat_event <=> hbBy # {}
  /\ is_posix /\ MainAt("chk_hb") /\ heartbeat_event => "alarm" \in hbBy

C20_Witness ==
  /\ is_posix
  /\ MainAt("chk_hb")
  /\ heartbeat_event
  /\ hbBy = {"alarm", "term"}
  /\ stop_event

====
